---- MODULE Spec2Model ----
(***************************************************************************)
(* Protocol engine of the Grove NFC (PN532) MakeCode extension.            *)
(*                                                                         *)
(* Variant "A" is src/grove-pn532.ts (Mifare Classic, 16-byte blocks, a    *)
(* length header plus a list of data blocks).  Variant "B" is              *)
(* src/unnamed/part_000 (Mifare Ultralight, 4-byte pages, an NDEF short    *)
(* text record).  Both are one TypeScript namespace with module-level      *)
(* state (targetID, targetNFCID, running); a behaviour fixes the variant   *)
(* in Init.                                                                *)
(*                                                                         *)
(* Every public operation is one action.  The machine record m that the    *)
(* helper operators thread through carries the module-level state of the   *)
(* program together with the far side of the I2C bus: the card memory, the *)
(* frames the chip has staged for the next reads, and the frames written   *)
(* to the chip so far in this operation (bus).                             *)
(*                                                                         *)
(* A step of a function that goes on from the result of a call is an       *)
(* operator of its own taking that result (wakeupAcked, targetListed,      *)
(* read16Authd, ...), so each call is written once, in program order.      *)
(*                                                                         *)
(* Numbers follow TypeScript: `/` is exact division, reading an array past *)
(* its end gives undefined, charCodeAt past the end gives NaN, and a       *)
(* Buffer stores ToUint8 of what is put into it.  A fraction x/16 is kept  *)
(* as the integer 16*x (names ending in 16).                               *)
(***************************************************************************)
EXTENDS Integers, Sequences, FiniteSets, TLC

VARIABLES
    variant,      \* "A" (grove-pn532.ts) or "B" (part_000)
    scenario,     \* "session": any operations, short texts; "transaction": one write, then reads, every length;
                  \* "foreign": reads of a card written elsewhere
    running,      \* let running
    targetID,     \* let targetID
    targetNFCID,  \* let targetNFCID
    card,         \* memory of the card in the field: a sequence of units (address a is card[a+1])
    cardUID,      \* the UID of that card
    written,      \* the text the last mutation of the card stored (NoText: none, or the card was formatted)
    mutated,      \* a write or format has been issued in this behaviour
    lastOp,       \* the last public operation: its name, argument, return value and bus traffic
    codecCommand, \* "codec" scenario: the command handed to makeCommand
    fullCommand,  \* "codec" scenario: the array makeCommand returned
    inputFrame,   \* "codec" scenario: the bytes writeBuffer put on the bus for it
    decoded       \* "codec" scenario: what readFrame returned when that frame came back, and how it came

vars == <<variant, scenario, running, targetID, targetNFCID, card, cardUID, written, mutated, lastOp,
          codecCommand, fullCommand, inputFrame, decoded>>

-----------------------------------------------------------------------------
(* Bounds of the model *)

\* longest text handed to writeText (two beyond the 224 it can store)
MaxLenA == 226
\* longest text handed to writeNDEFText (two beyond its limit of 147)
MaxLenB == 149
\* longest text of the "session" scenario
MaxSessionLen == 17
\* number of character patterns the texts are drawn from
NumPatterns == 2
\* 16-byte blocks of the Mifare Classic card
CardBlocks == 24
\* 4-byte pages of the Ultralight-family card
CardPages == 48
\* frames readNDEFText is followed through after its first
MaxFetches == 20
\* longest command handed to makeCommand on its own
MaxPayload == 255

-----------------------------------------------------------------------------
(* Numbers, arrays and buffers *)

\* undefined / NaN: what an out-of-range read of a number[] or a charCodeAt past the end yields
NaN == -1

Min(a, b) == IF a < b THEN a ELSE b

\* a + b on numbers
Plus(a, b) == IF a = NaN \/ b = NaN THEN NaN ELSE a + b

\* variation: one's complement
ComplementOnes(x) == IF x = NaN THEN NaN ELSE 255 - (x % 256)

\* 0x100 - (x % 0x100)
Complement(x) == IF x = NaN THEN NaN ELSE 256 - (x % 256)

\* variation: a buffer that keeps the number as it is
Unclipped(x) == IF x = NaN THEN 0 ELSE x

\* Buffer.setNumber(NumberFormat.UInt8LE, i, x): the byte a buffer keeps
ToUint8(x) == IF x = NaN THEN 0 ELSE x % 256

\* arr[i] on a number[] (0-based)
ArrGet(arr, i) == IF i >= 0 /\ i < Len(arr) THEN arr[i + 1] ELSE NaN

\* buf[i] / buf.getNumber(NumberFormat.UInt8LE, i) on a Buffer (0-based)
BufGet(buf, i) == IF i >= 0 /\ i < Len(buf) THEN buf[i + 1] ELSE 0

\* buf.slice(offset, length)
BufSlice(buf, offset, length) ==
    LET off == Min(Len(buf), offset)
        n   == Min(length, Len(buf) - off)
    IN  SubSeq(buf, off + 1, off + n)

\* message.charCodeAt(i)
charCodeAt(message, i) == IF i >= 0 /\ i < Len(message) THEN message[i + 1] ELSE NaN

\* message.substr(0, n)
substr(message, n) == SubSeq(message, 1, Min(n, Len(message)))

concatNumArr(firstArr, secondArr) == firstArr \o secondArr

\* arr[lo] + ... + arr[hi], added up by halves
RECURSIVE SumRange(_, _, _)
SumRange(arr, lo, hi) ==
    IF lo > hi THEN 0
    ELSE IF lo = hi THEN arr[lo]
    ELSE Plus(SumRange(arr, lo, (lo + hi) \div 2), SumRange(arr, ((lo + hi) \div 2) + 1, hi))

SumFrom(arr, i) == SumRange(arr, i, Len(arr))

Zeros(n) == [i \in 1..n |-> 0]

\* TRUE of every machine. A loop tests it on the machine it has reached before it goes on, so
\* that the machine is computed step by step, in program order.
Settled(m) == Len(m.bus) >= 0

-----------------------------------------------------------------------------
(* Program constants *)

targetKey == <<255, 255, 255, 255, 255, 255>>

\* variation: a block list that runs through the sector trailers
dataBlocksDense == <<5, 6, 7, 8, 9, 10, 11, 12, 13, 14, 15, 16, 17, 18>>

dataBlocks == <<5, 6, 8, 9, 10, 12, 13, 14, 16, 17, 18, 20, 21, 22>>

ACK_FRAME == <<1, 0, 0, 255, 0, 255, 0>>

wakeupFrame == <<0, 0, 255, 3, 253, 212, 20, 1, 23, 0>>

wakeupOK == <<1, 0, 0, 255, 2, 254, 213, 21, 22>>

listTarget == <<0, 0, 255, 4, 252, 212, 74, 1, 0, 225, 0>>

\* offset of the UID in the InListPassiveTarget response
UidOffset(v) == IF v = "A" THEN 14 ELSE 12

\* InDataExchange command bytes
CmdAuth == 96
CmdRead == 48
CmdWrite16 == 160
CmdWrite4 == 162

\* last page write4Bytes accepts without a diagnostic
CeilingPage == 40

-----------------------------------------------------------------------------
(* Frame codec *)

makeCommand(command) ==
    LET len == Len(command)
        length_checksum == Complement(len)
        preCommand == <<0, 0, 255, len, length_checksum>>
        allBytes == SumFrom(command, 1)
        data_checksum == Complement(allBytes)
        postCommand == <<data_checksum, 0>>
    IN  concatNumArr(concatNumArr(preCommand, command), postCommand)

-----------------------------------------------------------------------------
(* The far side of the bus: the PN532 and the card in its field.           *)
(* DeviceModes: "ok" chip answers and a card is in the field; "no_card"    *)
(* chip answers, no card; "error" chip acknowledges and answers every      *)
(* command with its syntax-error frame; "mute" chip does not answer.       *)

DeviceModes == {"ok", "no_card", "error", "mute"}

\* a response frame as the chip stages it: ready byte, preamble, LEN, LCS, payload, DCS, postamble
RespFrame(payload) ==
    <<1, 0, 0, 255, Len(payload), (256 - (Len(payload) % 256)) % 256>>
        \o payload
        \o <<(256 - (SumFrom(payload, 1) % 256)) % 256, 0>>

SyntaxErrorFrame == <<1, 0, 0, 255, 1, 255, 127, 129, 0>>

\* the chip accepts a written frame only if preamble, length and both checksums are right
WellFormed(wire) ==
    /\ Len(wire) >= 7
    /\ wire[1] = 0 /\ wire[2] = 0 /\ wire[3] = 255
    /\ Len(wire) = wire[4] + 7
    /\ (wire[4] + wire[5]) % 256 = 0
    /\ SumFrom(SubSeq(wire, 6, Len(wire) - 1), 1) % 256 = 0

\* what a 16-byte read at address a returns: one block (Classic) or four pages (Ultralight)
CardRead(v, mem, a) ==
    IF v = "A"
    THEN mem[a + 1]
    ELSE mem[(a % Len(mem)) + 1] \o mem[((a + 1) % Len(mem)) + 1]
            \o mem[((a + 2) % Len(mem)) + 1] \o mem[((a + 3) % Len(mem)) + 1]

\* the chip's reaction to one frame written to it: the card afterwards and the frames staged for reading
DeviceReact(v, dev, uid, mem, wire) ==
    IF dev = "mute" \/ ~WellFormed(wire)
    THEN [card |-> mem, staged |-> <<>>]
    ELSE IF dev = "error"
    THEN [card |-> mem, staged |-> <<ACK_FRAME, SyntaxErrorFrame>>]
    ELSE
    LET p == SubSeq(wire, 6, Len(wire) - 2)
        code == IF Len(p) >= 2 THEN p[2] ELSE 0
        sub == IF Len(p) >= 4 THEN p[4] ELSE 0
        addr == IF Len(p) >= 5 THEN p[5] ELSE 0
        unit == IF v = "A" THEN 16 ELSE 4
    IN  CASE code = 20 -> [card |-> mem, staged |-> <<ACK_FRAME, wakeupOK \o <<0>>>>]
          [] code = 74 /\ dev # "ok" -> [card |-> mem, staged |-> <<ACK_FRAME>>]
          [] code = 74 /\ dev = "ok" ->
                [card |-> mem, staged |-> <<ACK_FRAME, RespFrame(<<213, 75, 1, 1, 0, 4, 8, 4>> \o uid)>>]
          [] code = 64 /\ dev = "ok" /\ p[3] = 1 /\ addr < Len(mem) /\ sub = CmdRead ->
                [card |-> mem, staged |-> <<ACK_FRAME, RespFrame(<<213, 65, 0>> \o CardRead(v, mem, addr))>>]
          [] code = 64 /\ dev = "ok" /\ p[3] = 1 /\ addr < Len(mem) /\ sub \in {CmdWrite16, CmdWrite4}
                /\ Len(p) = 5 + unit ->
                [card |-> [mem EXCEPT ![addr + 1] = SubSeq(p, 6, Len(p))],
                 staged |-> <<ACK_FRAME, <<1, 0, 0, 255, 3, 253, 213, 65, 0, 234, 0>>>>]
          [] code = 64 /\ dev = "ok" /\ p[3] = 1 /\ addr < Len(mem) /\ sub = CmdAuth ->
                [card |-> mem, staged |-> <<ACK_FRAME, <<1, 0, 0, 255, 3, 253, 213, 65, 0, 234, 0>>>>]
          [] OTHER -> [card |-> mem, staged |-> <<ACK_FRAME, <<1, 0, 0, 255, 3, 253, 213, 65, 1, 233, 0>>>>]

-----------------------------------------------------------------------------
(* Transport adapter *)

\* the machine after the chip has taken a frame and reacted with r
Reacted(m, wire, r) == [m EXCEPT !.bus = Append(@, wire), !.card = r.card, !.staged = r.staged]

\* pins.i2cWriteBuffer(ADDRESS, bytes)
i2cWrite(m, wire) == Reacted(m, wire, DeviceReact(m.variant, m.dev, m.uid, m.card, wire))

\* a frame zero-padded or cut to n bytes
Padded(f, n) == [i \in 1..n |-> IF i <= Len(f) THEN f[i] ELSE 0]

\* pins.i2cReadBuffer(ADDRESS, n): the next staged frame, or zeros when the chip has nothing ready
i2cReadBuffer(m, n) ==
    IF m.staged = <<>>
    THEN [m |-> m, v |-> Zeros(n)]
    ELSE [m |-> [m EXCEPT !.staged = Tail(@)], v |-> Padded(Head(m.staged), n)]

writeBuffer(m, arr) == i2cWrite(m, [i \in 1..Len(arr) |-> ToUint8(arr[i])])

\* for (let i = 0; i <= arr.length - 1; i++) if (outputFrame.getNumber(...) != arr[i]) return false
Compared(r, arr) == [m |-> r.m, v |-> \A i \in 1..Len(arr) : r.v[i] = arr[i]]

checkOutput(m, arr) == Compared(i2cReadBuffer(m, Len(arr)), arr)

\* let len = buffer[4]; let outputFrame = buffer.slice(0, len + 8);
Sliced(r) == [m |-> r.m, v |-> BufSlice(r.v, 0, BufGet(r.v, 4) + 8)]

readFrame(m) == Sliced(i2cReadBuffer(m, 64))

-----------------------------------------------------------------------------
(* Session controller *)

\* wake: which of the two checks of the last wakeup() matched
noteWake(m, ack, ok) ==
    [m EXCEPT !.wake = IF ack THEN (IF ok THEN "both" ELSE "ack") ELSE (IF ok THEN "ok" ELSE "neither")]

\* variation: one matching check is enough
wakeupCheckedEither(validAck, validWakeupOK) ==
    IF validAck \/ validWakeupOK.v
    THEN [noteWake(validWakeupOK.m, validAck, validWakeupOK.v) EXCEPT !.running = TRUE]
    ELSE noteWake(validWakeupOK.m, validAck, validWakeupOK.v)

\* if (validAck && validWakeupOK) running = true
wakeupChecked(validAck, validWakeupOK) ==
    IF validAck /\ validWakeupOK.v
    THEN [noteWake(validWakeupOK.m, validAck, validWakeupOK.v) EXCEPT !.running = TRUE]
    ELSE noteWake(validWakeupOK.m, validAck, validWakeupOK.v)

\* let validWakeupOK = checkOutput(wakeupOK)
wakeupAcked(validAck) == wakeupChecked(validAck.v, checkOutput(validAck.m, wakeupOK))

wakeup(m) == wakeupAcked(checkOutput(writeBuffer(i2cWrite(m, <<0>>), wakeupFrame), ACK_FRAME))

\* found: whether the first discovery of the operation was answered with a target
noteFound(m, shown) == [m EXCEPT !.found = IF @ = "unset" THEN (IF shown THEN "yes" ELSE "no") ELSE @]

\* session, listed: `running`, targetID and targetNFCID as the last findPassiveTarget() of the
\* operation left them, and the response frame it read
noteListed(m, outputFrame) ==
    [m EXCEPT !.session = <<m.running, m.targetID, m.targetNFCID>>, !.listed = outputFrame]

\* if (outputFrame[0] == 0x01 && outputFrame[8] == 0x01) { targetID = 1; targetNFCID[i] = outputFrame[o + i] }
targetListed(r, o) ==
    IF BufGet(r.v, 0) = 1 /\ BufGet(r.v, 8) = 1
    THEN noteListed([noteFound(r.m, TRUE) EXCEPT
                        !.targetID = 1,
                        !.targetNFCID = <<BufGet(r.v, o), BufGet(r.v, o + 1), BufGet(r.v, o + 2),
                                          BufGet(r.v, o + 3)>>],
                    r.v)
    ELSE noteListed(noteFound(r.m, FALSE), r.v)

\* variation: discovery that keeps the previous target
targetKept(m) == m

\* targetID = 0; targetNFCID = [0, 0, 0, 0]
targetCleared(m) == [m EXCEPT !.targetID = 0, !.targetNFCID = <<0, 0, 0, 0>>]

findPassiveTarget(m) ==
    targetListed(readFrame(checkOutput(writeBuffer(targetCleared(m), listTarget), ACK_FRAME).m),
                 UidOffset(m.variant))

\* variation: wake-up on every entry
wakeAlwaysAndFind(m) == findPassiveTarget(wakeup(m))

\* if (!running) { wakeup(); basic.pause(50); }  findPassiveTarget();
wakeAndFind(m) == findPassiveTarget(IF ~m.running THEN wakeup(m) ELSE m)

-----------------------------------------------------------------------------
(* Authenticator and block transaction layer *)

\* let success = (authResponse[7] == 0x00)   (part_000 spells the binding `sucess`)
\* ackFailed: a checkOutput(ACK_FRAME) of an authenticate, unit read or unit write of the
\* operation did not match
accessAcked(validAck) == [validAck.m EXCEPT !.ackFailed = @ \/ ~validAck.v]

\* variation: an authenticate that drops the target when it reports failure
authCheckedForgetting(authResponse) ==
    [m |-> [authResponse.m EXCEPT
                !.auths = @ \cup {[ret |-> BufGet(authResponse.v, 7) = 0, response |-> authResponse.v]},
                !.targetID = IF BufGet(authResponse.v, 7) = 0 THEN @ ELSE 0],
     v |-> BufGet(authResponse.v, 7) = 0]

\* auths: every authenticate of the operation, as the value it returned and the response it read
authChecked(authResponse) ==
    [m |-> [authResponse.m EXCEPT
                !.auths = @ \cup {[ret |-> BufGet(authResponse.v, 7) = 0, response |-> authResponse.v]}],
     v |-> BufGet(authResponse.v, 7) = 0]

authenticate(m, address, key) ==
    authChecked(
        readFrame(accessAcked(checkOutput(
            writeBuffer(m, makeCommand(concatNumArr(<<212, 64, m.targetID, CmdAuth, address>>,
                                                    concatNumArr(key, m.targetNFCID)))),
            ACK_FRAME))))

\* read16Bytes after its authenticate(address)
read16Authd(m, address) ==
    readFrame(accessAcked(checkOutput(writeBuffer(m, makeCommand(<<212, 64, 1, CmdRead, address>>)),
                                      ACK_FRAME)))

\* variation: a read that relies on an earlier authentication
read16Unauthenticated(m, address) == read16Authd(m, address)

read16Bytes(m, address) == read16Authd(authenticate(m, address, targetKey).m, address)

\* variation: a write that is sent again when it was not acknowledged
resentIfNacked(validAck, data, address) ==
    IF validAck.v
    THEN validAck.m
    ELSE accessAcked(checkOutput(
             writeBuffer(validAck.m,
                         makeCommand(concatNumArr(<<212, 64, validAck.m.targetID, CmdWrite16, address>>, data))),
             ACK_FRAME))

write16Retrying(m, data, address) ==
    resentIfNacked(
        checkOutput(writeBuffer(m, makeCommand(concatNumArr(<<212, 64, m.targetID, CmdWrite16, address>>, data))),
                    ACK_FRAME),
        data, address)

\* write16Bytes after its authenticate(address)
write16Authd(m, data, address) ==
    accessAcked(checkOutput(
        writeBuffer(m, makeCommand(concatNumArr(<<212, 64, m.targetID, CmdWrite16, address>>, data))),
        ACK_FRAME))

write16Bytes(m, data, address) == write16Authd(authenticate(m, address, targetKey).m, data, address)

-----------------------------------------------------------------------------
(* Text codec, variant A *)

\* let maxStringLength = 16*dataBlocks.length
maxStringLengthA == 16 * Len(dataBlocks)

\* blocksNeeded = length/16 + 1, as sixteenths
blocksNeeded16(length) == length + 16

\* let len = length - (blocksNeeded - 1)*16; if (i < blocksNeeded - 1) len = 16;
blockLen(length, bn16, i) == IF 16 * i < bn16 - 16 THEN 16 ELSE length - (bn16 - 16)

\* the body of `for (let i=0;i<blocksNeeded;i++)`: data[i]
blockData(message, bn16, i) ==
    [j \in 1..16 |-> IF j - 1 < blockLen(Len(message), bn16, i)
                     THEN charCodeAt(message, i * 16 + j - 1)
                     ELSE 0]

\* for (let j=0;j<blocksNeeded;j++) write16Bytes(data[j], dataBlocks[j]);
RECURSIVE writeBlocks(_, _, _, _)
writeBlocks(m, message, bn16, j) ==
    IF Settled(m) /\ 16 * j < bn16
    THEN writeBlocks(write16Bytes(m, blockData(message, bn16, j), ArrGet(dataBlocks, j)),
                     message, bn16, j + 1)
    ELSE m

\* variation: no cut to size
untruncated(message) == message

\* if (message.length > maxStringLength) message = message.substr(0, maxStringLength)
truncated(message) == IF Len(message) > maxStringLengthA THEN substr(message, maxStringLengthA) ELSE message

\* writeText once the message is cut to size: header block, then data blocks
writeTextBlocks(m, message) ==
    writeBlocks(write16Bytes(m, <<Len(message)>> \o Zeros(15), 4), message, blocksNeeded16(Len(message)), 0)

\* writeText after findPassiveTarget()
writeTextFound(m, message) == IF m.targetID = 1 THEN writeTextBlocks(m, truncated(message)) ELSE m

writeText(m, message) == writeTextFound(wakeAndFind(m), message)

\* `for (let j=0;j<blocksNeeded;j++)` of readText, and its body after read16Bytes(dataBlocks[j])
RECURSIVE readBlocks(_, _, _, _, _)
RECURSIVE readBlock(_, _, _, _, _)
readBlocks(m, messageLength, bn16, j, textMessage) ==
    IF Settled(m) /\ 16 * j < bn16
    THEN readBlock(read16Bytes(m, ArrGet(dataBlocks, j)), messageLength, bn16, j, textMessage)
    ELSE [m |-> m, v |-> textMessage, stop |-> "none"]

readBlock(messageFrame, messageLength, bn16, j, textMessage) ==
    readBlocks(messageFrame.m, messageLength, bn16, j + 1,
               textMessage \o [i \in 1..blockLen(messageLength, bn16, j) |->
                                   BufGet(BufSlice(messageFrame.v, 9, 16), i - 1)])

\* readText after read16Bytes(0x04): let messageLength = outputFrame[9]
readTextHeader(outputFrame) ==
    readBlocks(outputFrame.m, BufGet(outputFrame.v, 9), blocksNeeded16(BufGet(outputFrame.v, 9)), 0, <<>>)

\* variation: readText that goes on without a target
readTextUnguarded(m) == readTextHeader(read16Bytes(m, 4))

\* readText after findPassiveTarget()
readTextFound(m) ==
    IF m.targetID = 1 THEN readTextHeader(read16Bytes(m, 4)) ELSE [m |-> m, v |-> <<>>, stop |-> "none"]

readText(m) == readTextFound(wakeAndFind(m))

\* the characters "0".."9", "A".."F"
HexChar(d) == IF d < 10 THEN 48 + d ELSE 55 + d

RECURSIVE HexDigits(_)
HexDigits(nrCopy) ==
    IF nrCopy > 0 THEN HexDigits((nrCopy - (nrCopy % 16)) \div 16) \o <<HexChar(nrCopy % 16)>> ELSE <<>>

decToHex(decNr) ==
    IF decNr = 0 THEN <<48, 48>>
    ELSE IF decNr < 17 THEN <<48>> \o HexDigits(decNr) ELSE HexDigits(decNr)

\* getNFCID after findPassiveTarget()
NFCIDString(m) ==
    [m |-> m,
     v |-> IF m.targetID # 0
           THEN decToHex(m.targetNFCID[1]) \o decToHex(m.targetNFCID[2])
                    \o decToHex(m.targetNFCID[3]) \o decToHex(m.targetNFCID[4])
           ELSE <<>>,
     stop |-> "none"]

getNFCID(m) == NFCIDString(findPassiveTarget(m))

-----------------------------------------------------------------------------
(* Block transaction layer and text codec, variant B *)

write4Bytes(m, data, address) ==
    accessAcked(checkOutput(
        writeBuffer(m, makeCommand(concatNumArr(<<212, 64, m.targetID, CmdWrite4, address>>, data))),
        ACK_FRAME))

\* while (address < 0x28) write4Bytes(zeroArr4, address++);
RECURSIVE formatZeroPages(_, _)
formatZeroPages(m, address) ==
    IF Settled(m) /\ address < CeilingPage
    THEN formatZeroPages(write4Bytes(m, <<0, 0, 0, 0>>, address), address + 1)
    ELSE m

\* formatAsNdef after findPassiveTarget()
formatFound(m) ==
    IF m.targetID = 1
    THEN formatZeroPages(write4Bytes(write4Bytes(m, <<3, 4, 216, 0>>, 4), <<0, 0, 254, 0>>, 5), 6)
    ELSE m

formatAsNdef(m) == formatFound(wakeAndFind(m))

\* let maxStringLength = ((0x29 - 0x04) * 4) - 1
maxStringLengthB == ((41 - 4) * 4) - 1

\* pageToAdd[pageToAdd.length] = 0xFE; while (pageToAdd.length < 4) pageToAdd[pageToAdd.length] = 0x00;
\* write4Bytes(pageToAdd, address++)
writeTerminator(w) == write4Bytes(w.m, Append(w.pageToAdd, 254) \o Zeros(3 - Len(w.pageToAdd)), w.address)

\* while (posInString < charsToWrite.length) { ... }, one page per step: the characters that
\* fill the pending page are appended together, and the page is written when it holds four.
\* Yields the machine, the pending page and the next address.
RECURSIVE writeChars(_, _, _, _, _)
writeChars(m, charsToWrite, posInString, pageToAdd, address) ==
    LET take == Min(4 - Len(pageToAdd), Len(charsToWrite) - posInString)
        page == pageToAdd \o [i \in 1..take |-> charCodeAt(charsToWrite, posInString + i - 1)]
    IN  IF Settled(m) /\ posInString < Len(charsToWrite)
        THEN IF Len(page) = 4
             THEN writeChars(write4Bytes(m, page, address), charsToWrite, posInString + take, <<>>, address + 1)
             ELSE [m |-> m, pageToAdd |-> page, address |-> address]
        ELSE [m |-> m, pageToAdd |-> pageToAdd, address |-> address]

\* the two header pages of the record
writeRecordHeader(m, charsToWrite) ==
    write4Bytes(write4Bytes(m, <<3, 7 + Len(charsToWrite), 209, 1>>, 4),
                <<Len(charsToWrite) + 3, 84, 2, 100>>, 5)

\* writeNDEFText after its formatAsNdef()
writeFormatted(m, charsToWrite) ==
    IF Len(charsToWrite) > maxStringLengthB
    THEN m
    ELSE writeTerminator(writeChars(writeRecordHeader(m, charsToWrite), charsToWrite, 0, <<101>>, 6))

\* writeNDEFText after findPassiveTarget(); d2: what the chip and the field are by the time
\* formatAsNdef runs its own discovery
writeNDEFFound(m, charsToWrite, d2) ==
    IF m.targetID = 1
    THEN writeFormatted(formatAsNdef([m EXCEPT !.dev = d2]), charsToWrite)
    ELSE m

writeNDEFText(m, charsToWrite, d2) == writeNDEFFound(wakeAndFind(m), charsToWrite, d2)

\* if (DEBUG_SERIAL) for (let j = 1; j < 16; j++) read16Bytes(j);
RECURSIVE debugReads(_, _)
debugReads(m, j) == IF Settled(m) /\ j < 16 THEN debugReads(read16Bytes(m, j).m, j + 1) ELSE m

\* for (let l = 9; l < outputFrame.length - 2; l++): the first l holding the marker pair, or -1
RECURSIVE findRecord(_, _)
findRecord(outputFrame, l) ==
    IF l < Len(outputFrame) - 2
    THEN IF BufGet(outputFrame, l) = 3 /\ BufGet(outputFrame, l + 5) = 84
         THEN l
         ELSE findRecord(outputFrame, l + 1)
    ELSE -1

\* The part of `while (true) { ... }` of readNDEFText that stays within one frame: from
\* startByte on, characters are taken until the frame's data ends ("more") or a 0xFE is met
\* ("terminator"). The byte right after a fetch is looked at without the end test (fresh).
RECURSIVE scanFrame(_, _, _, _, _)
scanFrame(m, outputFrame, startByte, fresh, textMessage) ==
    IF ~fresh /\ startByte >= Len(outputFrame) - 2
    THEN [m |-> m, frame |-> outputFrame, v |-> textMessage, startByte |-> startByte, stop |-> "more"]
    ELSE IF BufGet(outputFrame, startByte) = 254
         THEN [m |-> m, frame |-> outputFrame, v |-> textMessage, startByte |-> startByte, stop |-> "terminator"]
         ELSE scanFrame(m, outputFrame, startByte + 1, FALSE,
                        Append(textMessage, BufGet(outputFrame, startByte)))

\* scanFrame on a frame just fetched: startByte = 9
scanFetched(r, textMessage) == scanFrame(r.m, r.v, 9, TRUE, textMessage)

\* variation: a loop that leaves out `messageLength -= amountRead`
RECURSIVE readCharsStuck(_, _, _, _)
readCharsStuck(s, messageLength, amountRead, currentPage) ==
    IF Settled(s.m) /\ s.stop = "terminator"
    THEN [m |-> s.m, v |-> s.v, stop |-> "terminator"]
    ELSE IF messageLength - amountRead <= 0
    THEN [m |-> s.m, v |-> s.v, stop |-> "length"]
    ELSE IF currentPage >= 4 + 4 * MaxFetches
    THEN [m |-> s.m, v |-> s.v, stop |-> "unfinished"]
    ELSE readCharsStuck(scanFetched(read16Bytes(s.m, currentPage + 4), s.v), messageLength, 16, currentPage + 4)

\* `while (true) { ... }` of readNDEFText, one frame per step: s is the scan of the current
\* frame; stop tells which break ended the loop, "unfinished" that it was still going round
\* after MaxFetches frames had been fetched
RECURSIVE readChars(_, _, _, _)
readChars(s, messageLength, amountRead, currentPage) ==
    IF Settled(s.m) /\ s.stop = "terminator"
    THEN [m |-> s.m, v |-> s.v, stop |-> "terminator"]
    ELSE IF messageLength - amountRead <= 0
    THEN [m |-> s.m, v |-> s.v, stop |-> "length"]
    ELSE IF currentPage >= 4 + 4 * MaxFetches
    THEN [m |-> s.m, v |-> s.v, stop |-> "unfinished"]
    ELSE readChars(scanFetched(read16Bytes(s.m, currentPage + 4), s.v),
                   messageLength - amountRead, 16, currentPage + 4)

\* (outputFrame[l + 6] & 0x3F)
langLength(outputFrame, l) == BufGet(outputFrame, l + 6) % 64

\* readNDEFText after the scan for the record: l is where it was found, or -1
readRecord(r, l) ==
    LET messageLength == IF l = -1 THEN -1 ELSE BufGet(r.v, l + 4) - langLength(r.v, l) - 1
        startByte == IF l = -1 THEN -1 ELSE l + 7 + langLength(r.v, l)
    IN  IF startByte # -1 /\ messageLength > 0
        THEN readChars(scanFrame(r.m, r.v, startByte, FALSE, <<>>), messageLength, 27 - startByte - 2, 4)
        ELSE [m |-> r.m, v |-> <<>>, stop |-> "none"]

\* readNDEFText after read16Bytes(0x04)
readNDEFHeader(r) == readRecord(r, findRecord(r.v, 9))

\* readNDEFText after findPassiveTarget()
readNDEFFound(m) ==
    IF m.targetID = 1
    THEN readNDEFHeader(read16Bytes(debugReads(m, 1), 4))
    ELSE [m |-> m, v |-> <<>>, stop |-> "none"]

readNDEFText(m) == readNDEFFound(wakeAndFind(m))

-----------------------------------------------------------------------------
(* Inputs and initial states *)

Alphabet == <<65, 254, 1, 255, 0, 97>>

\* character k (from 1) of pattern p: pattern 1 is the letters A..Z in turn, the others cycle
\* through Alphabet, which holds NUL, 0xFE and 0xFF
CharAt(p, k) == IF p = 1 THEN 65 + ((k - 1) % 26) ELSE Alphabet[((k + p) % Len(Alphabet)) + 1]

Text(n, p) == [k \in 1..n |-> CharAt(p, k)]

Patterns == 1..NumPatterns

MaxLen(v) == IF v = "A" THEN MaxLenA ELSE MaxLenB

\* the texts an operation may be handed
Texts(v, sc) ==
    IF sc = "session"
    THEN {Text(n, 1) : n \in {k \in 0..MaxSessionLen : k % 16 \in {0, 1}}}
    ELSE {Text(n, p) : n \in 0..MaxLen(v), p \in Patterns}

\* the device behaviours a scenario allows
Modes(sc) == IF sc \in {"session", "foreign"} THEN DeviceModes ELSE {"ok"}

UIDs == {<<4, 161, 16, 255>>, <<0, 1, 17, 200>>}

\* a card as it comes: every byte zero, or every byte 0xFF
InitialCards(v) ==
    IF v = "A"
    THEN {[a \in 1..CardBlocks |-> [i \in 1..16 |-> b]] : b \in {0, 255}}
    ELSE {[a \in 1..CardPages |-> [i \in 1..4 |-> b]] : b \in {0, 255}}

NoText == <<-1>>

NoOp == [name |-> "none", arg |-> <<>>, ret |-> <<>>, bus |-> <<>>, found |-> FALSE, wasRunning |-> FALSE,
         stop |-> "none", wake |-> "none", auths |-> {}, session |-> <<>>, listed |-> <<>>,
         ackFailed |-> FALSE]

\* no frame yet
NoFrame == <<-1>>

NoDecode == [ready |-> FALSE, v |-> NoFrame]

Init ==
    /\ variant \in {"A", "B"}
    /\ scenario \in {"session", "transaction"}
    /\ codecCommand = <<>>
    /\ fullCommand = NoFrame
    /\ inputFrame = NoFrame
    /\ decoded = NoDecode
    /\ running = FALSE
    /\ targetID = 0
    /\ targetNFCID = <<0, 0, 0, 0>>
    /\ card \in InitialCards(variant)
    /\ cardUID \in IF scenario = "session" THEN UIDs ELSE {<<4, 161, 16, 255>>}
    /\ written = NoText
    /\ mutated = FALSE
    /\ lastOp = NoOp

\* the machine an operation starts on, with the device behaving as d
Entry(d) ==
    [variant |-> variant, running |-> running, targetID |-> targetID, targetNFCID |-> targetNFCID,
     card |-> card, uid |-> cardUID, dev |-> d, staged |-> <<>>, bus |-> <<>>, found |-> "unset",
     wake |-> "none", auths |-> {}, session |-> <<>>, listed |-> <<>>, ackFailed |-> FALSE]

\* an operation that returned: the module-level state and the card it leaves behind, and its record
Return(name, arg, r) ==
    /\ running' = r.m.running
    /\ targetID' = r.m.targetID
    /\ targetNFCID' = r.m.targetNFCID
    /\ card' = r.m.card
    /\ lastOp' = [name |-> name, arg |-> arg, ret |-> r.v, bus |-> r.m.bus, found |-> r.m.found = "yes",
                  wasRunning |-> running, stop |-> r.stop, wake |-> r.m.wake, auths |-> r.m.auths,
                  session |-> r.m.session, listed |-> r.m.listed, ackFailed |-> r.m.ackFailed]
    /\ UNCHANGED <<variant, scenario, cardUID, codecCommand, fullCommand, inputFrame, decoded>>

\* the result of an operation that returns nothing
Void(m) == [m |-> m, v |-> <<>>, stop |-> "none"]

\* the text on the card after a mutating operation handed `text` under a device that was ideal
\* or not: the text, or what it was when the card is untouched, or unknown
Stored(m, text, ideal) ==
    /\ written' = IF m.found = "yes" /\ ideal THEN text ELSE IF m.card = card THEN written ELSE NoText
    /\ mutated' = TRUE

\* a mutating operation is allowed: always in a session, once in a transaction
MayMutate == scenario = "session" \/ ~mutated

-----------------------------------------------------------------------------
(* Public operations *)

Returned(name, arg, r) == Return(name, arg, r) /\ UNCHANGED <<written, mutated>>

Mutated(name, arg, m, text, ideal) == Return(name, arg, Void(m)) /\ Stored(m, text, ideal)

GetNFCID ==
    /\ variant = "A"
    /\ \E d \in Modes(scenario) : Returned("getNFCID", <<>>, getNFCID(Entry(d)))

WriteText ==
    /\ variant = "A"
    /\ MayMutate
    /\ \E d \in Modes(scenario), message \in Texts(variant, scenario) :
         Mutated("writeText", message, writeText(Entry(d), message), message, TRUE)

ReadText ==
    /\ variant = "A"
    /\ \E d \in Modes(scenario) : Returned("readText", <<>>, readText(Entry(d)))

FormatAsNdef ==
    /\ variant = "B"
    /\ MayMutate
    /\ \E d \in Modes(scenario) : Mutated("formatAsNdef", <<>>, formatAsNdef(Entry(d)), NoText, TRUE)

WriteNDEFText ==
    /\ variant = "B"
    /\ MayMutate
    /\ \E d \in Modes(scenario), d2 \in Modes(scenario), charsToWrite \in Texts(variant, scenario) :
         /\ d # "ok" => d2 = d
         /\ Mutated("writeNDEFText", charsToWrite, writeNDEFText(Entry(d), charsToWrite, d2),
                    charsToWrite, d2 = "ok")

ReadNDEFText ==
    /\ variant = "B"
    /\ \E d \in Modes(scenario) : Returned("readNDEFText", <<>>, readNDEFText(Entry(d)))

Next ==
    \/ GetNFCID
    \/ WriteText
    \/ ReadText
    \/ FormatAsNdef
    \/ WriteNDEFText
    \/ ReadNDEFText

Spec == Init /\ [][Next]_vars

-----------------------------------------------------------------------------
(* Cards written elsewhere ("foreign" scenario): readNDEFText meets a card *)
(* of variant B whose pages hold any record header, or none.               *)

\* where in the data of pages 4..7 the byte 0x03 sits: 15 puts its 0x54 outside the frame
RecordOffsets == {0, 3, 10, 15}

\* the payload length byte
PayloadLengths == {0, 1, 2, 40, 64, 255}

\* the status byte, whose low six bits are taken as the length of the language code
StatusBytes == {0, 2, 63, 255}

\* the byte every position behind the record header holds: text, or terminators
FillAfter == {65, 254}

\* byte j, counted from the start of page 4, of the card that holds 03 .. .. .. P 54 G at k
ForeignByte(j, k, P, G, f) ==
    IF j = k THEN 3
    ELSE IF j = k + 4 THEN P
    ELSE IF j = k + 5 THEN 84
    ELSE IF j = k + 6 THEN G
    ELSE IF j < k + 6 THEN 0
    ELSE f

ForeignCards ==
    {[a \in 1..CardPages |-> [i \in 1..4 |-> ForeignByte(4 * (a - 1) + (i - 1) - 16, k, P, G, f)]] :
        k \in RecordOffsets, P \in PayloadLengths, G \in StatusBytes, f \in FillAfter}

InitForeign ==
    /\ variant = "B"
    /\ scenario = "foreign"
    /\ codecCommand = <<>>
    /\ fullCommand = NoFrame
    /\ inputFrame = NoFrame
    /\ decoded = NoDecode
    /\ running = FALSE
    /\ targetID = 0
    /\ targetNFCID = <<0, 0, 0, 0>>
    /\ card \in ForeignCards
    /\ cardUID = <<4, 161, 16, 255>>
    /\ written = NoText
    /\ mutated = FALSE
    /\ lastOp = NoOp

NextForeign == ReadNDEFText

SpecForeign == InitForeign /\ [][NextForeign]_vars

-----------------------------------------------------------------------------
(* The frame codec on its own ("codec" scenario): a command is handed to   *)
(* makeCommand, the result goes through writeBuffer, and the bytes on the  *)
(* bus come back to readFrame, either as they are or the way the chip      *)
(* hands over a frame, behind its ready byte 0x01.                         *)

\* [0xD4, 0x40, 0x01, 0x30, 0x04]: the command of read16Bytes(0x04)
readBlock4 == <<212, 64, 1, CmdRead, 4>>

\* n bytes b, 2b, 3b, ... (mod 256): all zero for b = 0
Fill(n, b) == [k \in 1..n |-> (b * k) % 256]

FillBytes == {0, 1, 255}

\* the commands handed to makeCommand
CodecCommands == {Fill(n, b) : n \in 0..MaxPayload, b \in FillBytes} \cup {readBlock4}

InitCodec ==
    /\ variant = "A"
    /\ scenario = "codec"
    /\ codecCommand \in CodecCommands
    /\ fullCommand = NoFrame
    /\ inputFrame = NoFrame
    /\ decoded = NoDecode
    /\ running = FALSE
    /\ targetID = 0
    /\ targetNFCID = <<0, 0, 0, 0>>
    /\ card = [a \in 1..CardBlocks |-> Zeros(16)]
    /\ cardUID = <<4, 161, 16, 255>>
    /\ written = NoText
    /\ mutated = FALSE
    /\ lastOp = NoOp

\* the bytes the last writeBuffer of m put on the bus
lastWritten(m) == m.bus[Len(m.bus)]

\* let fullCommand = makeCommand(command); writeBuffer(fullCommand);
Encode ==
    /\ scenario = "codec"
    /\ fullCommand = NoFrame
    /\ fullCommand' = makeCommand(codecCommand)
    /\ inputFrame' = lastWritten(writeBuffer(Entry("mute"), makeCommand(codecCommand)))
    /\ UNCHANGED <<variant, scenario, running, targetID, targetNFCID, card, cardUID, written, mutated, lastOp,
                   codecCommand, decoded>>

\* a machine whose next bus read yields frame f
staging(m, f) == [m EXCEPT !.staged = <<f>>]

\* readFrame() on the bytes of inputFrame, behind a ready byte or not
Decode ==
    /\ scenario = "codec"
    /\ inputFrame # NoFrame
    /\ decoded = NoDecode
    /\ \E ready \in BOOLEAN :
         decoded' = [ready |-> ready,
                     v |-> readFrame(staging(Entry("ok"), (IF ready THEN <<1>> ELSE <<>>) \o inputFrame)).v]
    /\ UNCHANGED <<variant, scenario, running, targetID, targetNFCID, card, cardUID, written, mutated, lastOp,
                   codecCommand, fullCommand, inputFrame>>

NextCodec ==
    \/ Encode
    \/ Decode

SpecCodec == InitCodec /\ [][NextCodec]_vars

-----------------------------------------------------------------------------
(* Reading the bus log and the card *)

\* frame w is an InDataExchange (D4 40) carrying card command c
IsExchange(w, c) == Len(w) >= 12 /\ w[6] = 212 /\ w[7] = 64 /\ w[9] = c

\* the unit address an InDataExchange frame names
AddressOf(w) == w[10]

\* position i of bus b is an authenticate of unit a with the default key and UID uid
IsAuthOf(b, i, a, uid) ==
    /\ i >= 1
    /\ IsExchange(b[i], CmdAuth)
    /\ AddressOf(b[i]) = a
    /\ SubSeq(b[i], 11, 16) = targetKey
    /\ SubSeq(b[i], 17, 20) = uid

\* every 16-byte read or write on bus b directly follows an authenticate of the same unit
EachAccessAuthenticated(b, uid) ==
    \A i \in 1..Len(b) :
        (IsExchange(b[i], CmdRead) \/ IsExchange(b[i], CmdWrite16)) => IsAuthOf(b, i - 1, AddressOf(b[i]), uid)

\* the card holds text in the data blocks of variant A, in order
StoredInDataBlocks(mem, text) ==
    \A k \in 1..Len(text) : mem[dataBlocks[((k - 1) \div 16) + 1] + 1][((k - 1) % 16) + 1] = text[k]

\* the operations that read or write text
TextOps == {"readText", "writeText", "readNDEFText", "writeNDEFText"}

-----------------------------------------------------------------------------
(* Properties *)

\* C1: variant A round trip. With a target present and a card that stores what it is sent, a
\* readText that follows writeText(S), len(S) <= 224, returns exactly S.
RoundTripA ==
    (variant = "A" /\ lastOp.name = "readText" /\ lastOp.found /\ written # NoText
        /\ Len(written) <= maxStringLengthA)
    => lastOp.ret = written

\* C2: variant A truncation. After writeText(S) with len(S) > 224 the data blocks hold the first
\* 224 characters of S, and a following readText returns exactly those.
TruncationA ==
    (variant = "A" /\ written # NoText /\ Len(written) > maxStringLengthA)
    => /\ StoredInDataBlocks(card, substr(written, maxStringLengthA))
       /\ (lastOp.name = "readText" /\ lastOp.found) => lastOp.ret = substr(written, maxStringLengthA)

TruncationAReached ==
    /\ variant = "A"
    /\ lastOp.name = "readText"
    /\ lastOp.found
    /\ written # NoText
    /\ Len(written) = maxStringLengthA + 2
    /\ Len(lastOp.ret) = maxStringLengthA

\* C3: reserved addresses of variant A. No operation puts on the bus a 16-byte write (0xA0) to
\* an address a with a mod 4 = 3.
NoTrailerWrite ==
    variant = "A" =>
        \A i \in 1..Len(lastOp.bus) : IsExchange(lastOp.bus[i], CmdWrite16) => AddressOf(lastOp.bus[i]) % 4 # 3

NoTrailerWriteReached ==
    /\ variant = "A"
    /\ lastOp.name = "writeText"
    /\ lastOp.found
    /\ \E i \in 1..Len(lastOp.bus) : IsExchange(lastOp.bus[i], CmdWrite16) /\ AddressOf(lastOp.bus[i]) = 22

\* C4: oversize rejection of variant B. writeNDEFText handed 148 characters or more puts no
\* page write (0xA2) on the bus.
OversizeRejectedB ==
    (variant = "B" /\ lastOp.name = "writeNDEFText" /\ Len(lastOp.arg) > maxStringLengthB)
    => \A i \in 1..Len(lastOp.bus) : ~IsExchange(lastOp.bus[i], CmdWrite4)

\* C5: write ceiling of variant B. formatAsNdef, and writeNDEFText handed at most 147
\* characters, put no page write on the bus for a page above 0x28.
WriteCeilingB ==
    (/\ variant = "B"
     /\ \/ lastOp.name = "formatAsNdef"
        \/ lastOp.name = "writeNDEFText" /\ Len(lastOp.arg) <= maxStringLengthB)
    => \A i \in 1..Len(lastOp.bus) : IsExchange(lastOp.bus[i], CmdWrite4) => AddressOf(lastOp.bus[i]) <= CeilingPage

\* C6: variant B round trip. With a target present and a card that stores what it is sent, a
\* readNDEFText that follows writeNDEFText(S), len(S) <= 147, returns exactly S.
RoundTripB ==
    (variant = "B" /\ lastOp.name = "readNDEFText" /\ lastOp.found /\ written # NoText
        /\ Len(written) <= maxStringLengthB)
    => lastOp.ret = written

\* C7: re-authentication in variant A. Every 16-byte read (0x30) or write (0xA0) on the bus
\* directly follows an authenticate (0x60) of the same address with the default key and the
\* UID of the session.
ReauthenticatesA == variant = "A" => EachAccessAuthenticated(lastOp.bus, targetNFCID)

ReauthenticatesAReached ==
    /\ variant = "A"
    /\ lastOp.name = "readText"
    /\ lastOp.found
    /\ Len(lastOp.ret) = 16
    /\ \E i \in 1..Len(lastOp.bus) : IsExchange(lastOp.bus[i], CmdRead) /\ AddressOf(lastOp.bus[i]) = 6
    /\ \E i \in 1..Len(lastOp.bus) : IsExchange(lastOp.bus[i], CmdRead) /\ AddressOf(lastOp.bus[i]) = 4

\* C8: no target, no card access. When the discovery of an operation finds no target, getNFCID
\* and readText return the empty string, and readText and writeText put no authenticate, read
\* or write on the bus.
NoTargetNoAccess ==
    (variant = "A" /\ lastOp.name \in {"getNFCID", "readText", "writeText"} /\ ~lastOp.found)
    => /\ lastOp.ret = <<>>
       /\ \A i \in 1..Len(lastOp.bus) :
            /\ ~IsExchange(lastOp.bus[i], CmdAuth)
            /\ ~IsExchange(lastOp.bus[i], CmdRead)
            /\ ~IsExchange(lastOp.bus[i], CmdWrite16)

NoTargetNoAccessReached ==
    /\ variant = "A"
    /\ lastOp.name = "readText"
    /\ ~lastOp.found
    /\ lastOp.wasRunning
    /\ written # NoText

\* C9: discovery idempotence. After an operation whose discovery was not answered with a
\* target, targetID is 0 and the UID is all zero, whatever the session held before.
DiscoveryClears ==
    (lastOp.name # "none" /\ ~lastOp.found) => (targetID = 0 /\ targetNFCID = <<0, 0, 0, 0>>)

DiscoveryClearsReached ==
    /\ variant = "A"
    /\ lastOp.name = "getNFCID"
    /\ ~lastOp.found
    /\ lastOp.wasRunning
    /\ written # NoText
    /\ targetID = 0

\* C10, as stated: every readText, writeText, readNDEFText and writeNDEFText starts with the
\* wake-up (SAM configuration) exchange, followed by discovery.
AlwaysWakes ==
    lastOp.name \in TextOps =>
        /\ Len(lastOp.bus) >= 3
        /\ lastOp.bus[1] = <<0>>
        /\ lastOp.bus[2] = wakeupFrame
        /\ lastOp.bus[3] = listTarget

\* C10, amended: every readText, writeText, readNDEFText and writeNDEFText runs discovery
\* first, preceded by the wake-up exchange exactly when `running` was false on entry, and
\* every 16-byte read or write it then makes directly follows an authenticate of that unit.
WakesUnlessRunning ==
    lastOp.name \in TextOps =>
        /\ lastOp.wasRunning =>
             /\ Len(lastOp.bus) >= 1
             /\ lastOp.bus[1] = listTarget
             /\ \A i \in 1..Len(lastOp.bus) : lastOp.bus[i] # wakeupFrame
        /\ ~lastOp.wasRunning =>
             /\ Len(lastOp.bus) >= 3
             /\ lastOp.bus[1] = <<0>>
             /\ lastOp.bus[2] = wakeupFrame
             /\ lastOp.bus[3] = listTarget
        /\ EachAccessAuthenticated(lastOp.bus, targetNFCID)

WakesUnlessRunningReached ==
    /\ lastOp.name = "readText"
    /\ lastOp.wasRunning
    /\ lastOp.found
    /\ lastOp.bus[1] = listTarget
    /\ \E i \in 1..Len(lastOp.bus) : IsExchange(lastOp.bus[i], CmdAuth)

\* C11: checksum round trip. For a command of 0..255 bytes, readFrame on the frame that
\* makeCommand built returns the command bytes in full, at the offset of the data in the frame,
\* and both checksums of the frame validate.
ChecksumRoundTrip ==
    (decoded # NoDecode /\ Len(codecCommand) <= 255)
    => LET L == Len(codecCommand)
           o == IF decoded.ready THEN 6 ELSE 5
       IN  /\ Len(decoded.v) >= o + L
           /\ SubSeq(decoded.v, o + 1, o + L) = codecCommand
           /\ (inputFrame[4] + inputFrame[5]) % 256 = 0
           /\ (SumFrom(codecCommand, 1) + inputFrame[L + 6]) % 256 = 0

\* C12, as stated: makeCommand([0xD4, 0x40, 0x01, 0x30, 0x04]) is
\* 00 00 FF 05 FB D4 40 01 30 04 C7 00.
ReadBlock4FrameC7 ==
    (codecCommand = readBlock4 /\ fullCommand # NoFrame)
    => fullCommand = <<0, 0, 255, 5, 251, 212, 64, 1, 48, 4, 199, 0>>

\* C12, amended: makeCommand([0xD4, 0x40, 0x01, 0x30, 0x04]) is
\* 00 00 FF 05 FB D4 40 01 30 04 B7 00: length 5, length checksum 0xFB, data checksum 0xB7.
ReadBlock4FrameB7 ==
    (codecCommand = readBlock4 /\ fullCommand # NoFrame)
    => fullCommand = <<0, 0, 255, 5, 251, 212, 64, 1, 48, 4, 183, 0>>

ReadBlock4FrameReached ==
    /\ codecCommand = readBlock4
    /\ fullCommand # NoFrame
    /\ inputFrame = fullCommand
    /\ (212 + 64 + 1 + 48 + 4 + fullCommand[11]) % 256 = 0

\* C13, as stated: for a command of L = 0..255 bytes the array makeCommand returns has
\* length checksum (256 - L) mod 256 and data checksum (256 - (sum mod 256)) mod 256, and every
\* element of it is a byte.
ChecksumBytes ==
    (fullCommand # NoFrame /\ Len(codecCommand) <= 255)
    => LET L == Len(codecCommand)
       IN  /\ fullCommand[5] = (256 - L) % 256
           /\ fullCommand[L + 6] = (256 - (SumFrom(codecCommand, 1) % 256)) % 256
           /\ \A i \in 1..Len(fullCommand) : fullCommand[i] \in 0..255

\* C13, amended: the array makeCommand returns holds 256 - (L mod 256) and
\* 256 - (sum mod 256), which is 256 when L = 0 or the sum is a multiple of 256; the frame
\* writeBuffer puts on the bus holds these values mod 256, and every byte of it is in 0..255.
ChecksumBytesOnBus ==
    (fullCommand # NoFrame /\ Len(codecCommand) <= 255)
    => LET L == Len(codecCommand)
       IN  /\ fullCommand[5] = 256 - (L % 256)
           /\ fullCommand[L + 6] = 256 - (SumFrom(codecCommand, 1) % 256)
           /\ Len(inputFrame) = L + 7
           /\ inputFrame[5] = (256 - L) % 256
           /\ inputFrame[L + 6] = (256 - (SumFrom(codecCommand, 1) % 256)) % 256
           /\ \A i \in 1..Len(inputFrame) : inputFrame[i] \in 0..255

ChecksumBytesOnBusReached ==
    /\ fullCommand # NoFrame
    /\ Len(codecCommand) = 0
    /\ fullCommand[5] = 256
    /\ fullCommand[6] = 256
    /\ inputFrame = <<0, 0, 255, 0, 0, 0, 0>>

\* the operations that call wakeup() when `running` is false
WakingOps == TextOps \cup {"formatAsNdef"}

IsCardCommand(w) == Len(w) >= 12 /\ w[6] = 212 /\ w[7] = 64

\* C15: session order. An operation puts the discovery command or a card command on the bus
\* only while `running` is true: it was true on entry, or the wakeup() of the operation set it.
DiscoveryOnlyWhenRunning ==
    \A i \in 1..Len(lastOp.bus) :
        (lastOp.bus[i] = listTarget \/ IsCardCommand(lastOp.bus[i]))
        => (lastOp.wasRunning \/ lastOp.wake = "both")

\* frame f, as readFrame returned it, is the response to an InDataExchange (D5 41)
IsExchangeResponse(f) == Len(f) >= 9 /\ BufGet(f, 0) = 1 /\ BufGet(f, 6) = 213 /\ BufGet(f, 7) = 65

\* C16: authenticate returns true exactly when the status byte of the InDataExchange response,
\* the byte at offset 8 that precedes the data at offset 9, is zero.
AuthReturnsStatus ==
    \A a \in lastOp.auths : IsExchangeResponse(a.response) => (a.ret <=> BufGet(a.response, 8) = 0)

\* C17: variant B addresses the card directly. No operation of variant B puts an
\* authenticate (0x60) on the bus.
NoAuthenticateB ==
    variant = "B" => \A i \in 1..Len(lastOp.bus) : ~IsExchange(lastOp.bus[i], CmdAuth)

\* C18: illegal-address guard of variant B. write4Bytes handed an address above 0x28 puts no
\* frame on the bus: no page write on the bus of any operation names a page above 0x28.
GuardRefusesB ==
    \A i \in 1..Len(lastOp.bus) :
        (variant = "B" /\ IsExchange(lastOp.bus[i], CmdWrite4)) => ~(AddressOf(lastOp.bus[i]) > CeilingPage)

\* the addresses writeText and readText are meant to use: 0x04 and the elements of dataBlocks
AllowedBlocks == {4} \cup {dataBlocks[j] : j \in 1..Len(dataBlocks)}

\* C19: address allowlist on write, variant A. Every 16-byte write writeText puts on the bus
\* names the header block 0x04 or an element of dataBlocks.
WritesOnlyAllowedBlocks ==
    (variant = "A" /\ lastOp.name = "writeText")
    => \A i \in 1..Len(lastOp.bus) :
         IsExchange(lastOp.bus[i], CmdWrite16) => AddressOf(lastOp.bus[i]) \in AllowedBlocks

\* C20: address allowlist on read, variant A. Whatever length byte the header block holds,
\* every 16-byte read readText puts on the bus names 0x04 or an element of dataBlocks, and
\* readText returns at most 224 characters.
ReadsOnlyAllowedBlocks ==
    (variant = "A" /\ lastOp.name = "readText")
    => /\ \A i \in 1..Len(lastOp.bus) :
            IsExchange(lastOp.bus[i], CmdRead) => AddressOf(lastOp.bus[i]) \in AllowedBlocks
       /\ Len(lastOp.ret) <= maxStringLengthA

\* buffer[4] of the raw read that Decode handed to readFrame
announcedLength == IF decoded.ready THEN inputFrame[4] ELSE inputFrame[5]

\* C21: readFrame returns exactly length + 8 bytes, for every length 0..255 announced at
\* byte 4 of the raw read.
ReadFrameLength ==
    (decoded # NoDecode /\ announcedLength \in 0..255) => Len(decoded.v) = announcedLength + 8

\* C22: single writer of session state. `running`, targetID and targetNFCID are what the
\* last findPassiveTarget() of the operation left: the authenticate, unit read and unit write
\* calls that follow it (with makeCommand, readFrame and checkOutput inside them) change none.
SessionWrittenByController ==
    lastOp.name # "none" => lastOp.session = <<running, targetID, targetNFCID>>

SessionWrittenByControllerReached ==
    /\ lastOp.name \in {"writeText", "writeNDEFText"}
    /\ lastOp.found
    /\ Len(lastOp.arg) = 17
    /\ lastOp.session = <<TRUE, 1, targetNFCID>>
    /\ \E i \in 1..Len(lastOp.bus) : IsExchange(lastOp.bus[i], CmdWrite16) \/ IsExchange(lastOp.bus[i], CmdWrite4)
    /\ \E i \in 1..Len(lastOp.bus) : IsExchange(lastOp.bus[i], CmdAuth) \/ variant = "B"

\* the addresses of the frames on bus b that carry card command c, in the order sent
Addresses(b, c) ==
    LET sent == SelectSeq(b, LAMBDA w : IsExchange(w, c))
    IN  [i \in 1..Len(sent) |-> AddressOf(sent[i])]

\* how many passes `for (j = 0; j < length/16 + 1; j++)` makes
Passes(length) == IF length % 16 = 0 THEN (length \div 16) + 1 ELSE (length \div 16) + 2

\* the address bytes of 0x04 followed by dataBlocks[0], dataBlocks[1], ... for n passes
BlockAddresses(n) == <<4>> \o [j \in 1..n |-> ToUint8(ArrGet(dataBlocks, j - 1))]

\* the pages writeNDEFText writes for a text of n characters: two header pages, then the
\* language byte, the text and the terminator, four bytes a page
RecordPages(n) == [k \in 1..(2 + ((n + 5) \div 4)) |-> 3 + k]

\* the pages formatAsNdef writes
FormatPages == [k \in 1..(CeilingPage - 4) |-> 3 + k]

StopsByLengthB ==
    (/\ variant = "B"
     /\ lastOp.name = "readNDEFText"
     /\ lastOp.found
     /\ written # NoText
     /\ Len(written) \in 1..maxStringLengthB
     /\ \A i \in 1..Len(written) : written[i] # 254)
    => lastOp.stop = "length"

\* the target byte of an InDataExchange frame
TargetOf(w) == w[8]

\* C25: every InDataExchange on the bus (authenticate, read or write) carries target 1.
ExchangesCarryTarget ==
    \A i \in 1..Len(lastOp.bus) :
        (\E c \in {CmdAuth, CmdRead, CmdWrite16, CmdWrite4} : IsExchange(lastOp.bus[i], c))
        => TargetOf(lastOp.bus[i]) = 1

\* the two hexadecimal characters of byte b
TwoHex(b) == <<HexChar(b \div 16), HexChar(b % 16)>>

\* C26: when a target is found, getNFCID returns exactly 8 hexadecimal characters, the two
\* of each UID byte in order.
NFCIDEightChars ==
    (lastOp.name = "getNFCID" /\ lastOp.found)
    => /\ Len(lastOp.ret) = 8
       /\ lastOp.ret = TwoHex(targetNFCID[1]) \o TwoHex(targetNFCID[2])
                          \o TwoHex(targetNFCID[3]) \o TwoHex(targetNFCID[4])

\* what findPassiveTarget of variant v records for the response frame that the last
\* discovery of the operation read
RecordedBy(v) == targetListed([m |-> Entry("ok"), v |-> lastOp.listed], UidOffset(v))

\* C27: for the same discovery response, findPassiveTarget of variant A and of variant B
\* record the same targetID and the same 4-byte UID.
VariantsRecordSameTarget ==
    lastOp.name # "none" =>
        /\ RecordedBy("A").targetID = RecordedBy("B").targetID
        /\ RecordedBy("A").targetNFCID = RecordedBy("B").targetNFCID

====
